---- MODULE Spec2Model ----
(***************************************************************************)
(* backend/server/settings.py: module constants, the two logging toggles   *)
(* set at import, and the factories get_postgres_url() and get_model().    *)
(*                                                                         *)
(* The process is modelled from just before the module is imported.  The   *)
(* environment (os.environ) is changed by the rest of the process at any   *)
(* time; callers run on NumThreads threads, and a call is two steps: the   *)
(* entry into the function and its body up to the return.                  *)
(***************************************************************************)
EXTENDS Integers, Sequences, FiniteSets, TLC

\* Number of threads that call the factories.
NumThreads == 2
\* Cap on the number of calls started in one behaviour.
MaxCalls == 3

Threads == 1..NumThreads

\* Names of the environment variables the process sets or deletes.
EnvNames == {"PG_HOST", "PG_USER"}

\* Values the process gives them: the empty string, a host name and a
\* string that is no host name for PG_HOST, one value for PG_USER.
EnvValues ==
    [PG_HOST |-> {"", "db.example.com", "bad host/@"},
     PG_USER |-> {"admin"}]

\* os.environ as a mapping: a function whose domain is the set variables.
Environs ==
    UNION {{e \in [S -> UNION {EnvValues[n] : n \in EnvNames}] :
              \A n \in S : e[n] \in EnvValues[n]} : S \in SUBSET EnvNames}

VARIABLES
    loaded,            \* the module body has run
    globals,           \* the module's constants, by name (empty before load)
    debug, verbose,    \* langchain.globals toggles
    before_load,       \* history: <<debug, verbose>> as they were at import
    environ,           \* os.environ
    pc,                \* per thread: "idle" or the function it is inside
    urls,              \* history: completed get_postgres_url() calls
    handles            \* history: completed get_model() calls

vars == <<loaded, globals, debug, verbose, before_load, environ, pc, urls, handles>>

NoGlobals == [n \in {} |-> 0]

MODEL_NAME == globals["MODEL_NAME"]
CHUNK_SIZE == globals["CHUNK_SIZE"]
CHUNK_OVERLAP == globals["CHUNK_OVERLAP"]
MAX_CONCURRENCY == globals["MAX_CONCURRENCY"]

\* Faulty variant: the default is dropped, os.environ.get(key) gives None when unset.
os_environ_get_no_default(e, key, default) ==
    IF key \in DOMAIN e THEN e[key] ELSE "None"

\* Faulty variant: os.environ.get(key) or default, so an empty value falls back.
os_environ_get_or_default(e, key, default) ==
    IF key \in DOMAIN e /\ e[key] # "" THEN e[key] ELSE default

\* dict.get(key, default) on os.environ
os_environ_get(e, key, default) ==
    IF key \in DOMAIN e THEN e[key] ELSE default

\* sqlalchemy URL.create with keyword arguments: the descriptor value.
URL_create(drivername, username, password, host, database, port) ==
    [drivername |-> drivername, username |-> username, password |-> password,
     host |-> host, database |-> database, port |-> port]

\* AzureChatOpenAI(...): a newly allocated client object, id its identity.
AzureChatOpenAI(id, deployment_name, model_version, temperature) ==
    [id |-> id, deployment_name |-> deployment_name,
     model_version |-> model_version, temperature |-> temperature]

\* Calls started so far: completed ones and those in flight.
Started ==
    Len(urls) + Len(handles) + Cardinality({t \in Threads : pc[t] # "idle"})

Init ==
    /\ loaded = FALSE
    /\ globals = NoGlobals
    /\ debug \in BOOLEAN
    /\ verbose \in BOOLEAN
    /\ before_load = <<debug, verbose>>
    /\ environ \in Environs
    /\ pc = [t \in Threads |-> "idle"]
    /\ urls = <<>>
    /\ handles = <<>>

\* Faulty variant: set_verbose(True) is missing from the module body.
Load_without_set_verbose ==
    /\ ~loaded
    /\ loaded' = TRUE
    /\ globals' = [MODEL_NAME |-> "gpt-3.5-turbo", CHUNK_SIZE |-> 250,
                   CHUNK_OVERLAP |-> 0, MAX_CONCURRENCY |-> 1]
    /\ debug' = TRUE
    /\ verbose' = verbose
    /\ before_load' = <<debug, verbose>>
    /\ UNCHANGED <<environ, pc, urls, handles>>

\* Module body, lines 10-17: the constants, then set_debug(True) and
\* set_verbose(True).
Load ==
    /\ ~loaded
    /\ loaded' = TRUE
    /\ globals' = [MODEL_NAME |-> "gpt-3.5-turbo", CHUNK_SIZE |-> 250,
                   CHUNK_OVERLAP |-> 0, MAX_CONCURRENCY |-> 1]
    /\ debug' = TRUE
    /\ verbose' = TRUE
    /\ before_load' = <<debug, verbose>>
    /\ UNCHANGED <<environ, pc, urls, handles>>

\* The rest of the process sets an environment variable.
SetEnv(n, v) ==
    /\ environ' = [m \in DOMAIN environ \cup {n} |->
                     IF m = n THEN v ELSE environ[m]]
    /\ environ' # environ
    /\ UNCHANGED <<loaded, globals, debug, verbose, before_load, pc, urls, handles>>

\* The rest of the process deletes an environment variable.
DelEnv(n) ==
    /\ n \in DOMAIN environ
    /\ environ' = [m \in DOMAIN environ \ {n} |-> environ[m]]
    /\ UNCHANGED <<loaded, globals, debug, verbose, before_load, pc, urls, handles>>

\* A thread enters get_postgres_url().
call_get_postgres_url(t) ==
    /\ loaded
    /\ pc[t] = "idle"
    /\ Started < MaxCalls
    /\ pc' = [pc EXCEPT ![t] = "get_postgres_url"]
    /\ UNCHANGED <<loaded, globals, debug, verbose, before_load, environ, urls, handles>>

\* Faulty variant: the username is taken from PG_USER when it is set.
get_postgres_url_user_from_env(t) ==
    /\ pc[t] = "get_postgres_url"
    /\ LET url == URL_create("postgresql",
                             os_environ_get(environ, "PG_USER", "langchain"),
                             "langchain",
                             os_environ_get(environ, "PG_HOST", "localhost"),
                             "langchain", 5432)
       IN  urls' = Append(urls, [environ |-> environ, outcome |-> "return",
                                 value |-> url])
    /\ pc' = [pc EXCEPT ![t] = "idle"]
    /\ UNCHANGED <<loaded, globals, debug, verbose, before_load, environ, handles>>

\* Faulty variant: the host is validated and a malformed one raises ValueError.
get_postgres_url_validating(t) ==
    /\ pc[t] = "get_postgres_url"
    /\ LET host == os_environ_get(environ, "PG_HOST", "localhost")
           url == URL_create("postgresql", "langchain", "langchain", host,
                             "langchain", 5432)
       IN  urls' = Append(urls,
                     IF host \in {"", "bad host/@"}
                       THEN [environ |-> environ, outcome |-> "raise",
                             value |-> URL_create("", "", "", "", "", 0)]
                       ELSE [environ |-> environ, outcome |-> "return",
                             value |-> url])
    /\ pc' = [pc EXCEPT ![t] = "idle"]
    /\ UNCHANGED <<loaded, globals, debug, verbose, before_load, environ, handles>>

\* Faulty variant: os.environ.setdefault("PG_HOST", "localhost") instead of get.
get_postgres_url_setdefault(t) ==
    /\ pc[t] = "get_postgres_url"
    /\ environ' = [m \in DOMAIN environ \cup {"PG_HOST"} |->
                     IF m \in DOMAIN environ THEN environ[m] ELSE "localhost"]
    /\ LET url == URL_create("postgresql", "langchain", "langchain",
                             os_environ_get(environ, "PG_HOST", "localhost"),
                             "langchain", 5432)
       IN  urls' = Append(urls, [environ |-> environ, outcome |-> "return",
                                 value |-> url])
    /\ pc' = [pc EXCEPT ![t] = "idle"]
    /\ UNCHANGED <<loaded, globals, debug, verbose, before_load, handles>>

\* Faulty variant: the result is memoised, later calls return the first URL.
get_postgres_url_cached(t) ==
    /\ pc[t] = "get_postgres_url"
    /\ LET url == URL_create("postgresql", "langchain", "langchain",
                             os_environ_get(environ, "PG_HOST", "localhost"),
                             "langchain", 5432)
       IN  urls' = Append(urls, [environ |-> environ, outcome |-> "return",
                                 value |-> IF urls = <<>> THEN url
                                           ELSE urls[1].value])
    /\ pc' = [pc EXCEPT ![t] = "idle"]
    /\ UNCHANGED <<loaded, globals, debug, verbose, before_load, environ, handles>>

\* Body of get_postgres_url(): read PG_HOST, build the URL, return it.
get_postgres_url(t) ==
    /\ pc[t] = "get_postgres_url"
    /\ LET url == URL_create("postgresql", "langchain", "langchain",
                             os_environ_get(environ, "PG_HOST", "localhost"),
                             "langchain", 5432)
       IN  urls' = Append(urls, [environ |-> environ, outcome |-> "return",
                                 value |-> url])
    /\ pc' = [pc EXCEPT ![t] = "idle"]
    /\ UNCHANGED <<loaded, globals, debug, verbose, before_load, environ, handles>>

\* Faulty variant: entry waits while MAX_CONCURRENCY calls are inside get_model().
call_get_model_capped(t) ==
    /\ loaded
    /\ pc[t] = "idle"
    /\ Started < MaxCalls
    /\ Cardinality({u \in Threads : pc[u] = "get_model"}) < MAX_CONCURRENCY
    /\ pc' = [pc EXCEPT ![t] = "get_model"]
    /\ UNCHANGED <<loaded, globals, debug, verbose, before_load, environ, urls, handles>>

\* A thread enters get_model().
call_get_model(t) ==
    /\ loaded
    /\ pc[t] = "idle"
    /\ Started < MaxCalls
    /\ pc' = [pc EXCEPT ![t] = "get_model"]
    /\ UNCHANGED <<loaded, globals, debug, verbose, before_load, environ, urls, handles>>

\* Faulty variant: one client is built on the first call and returned ever after.
get_model_singleton(t) ==
    /\ pc[t] = "get_model"
    /\ handles' = Append(handles,
                    AzureChatOpenAI(1, "gpt-35-turbo-0125", "0125", 0))
    /\ pc' = [pc EXCEPT ![t] = "idle"]
    /\ UNCHANGED <<loaded, globals, debug, verbose, before_load, environ, urls>>

\* Faulty variant: each call raises the module's concurrency cap by one.
get_model_raising_cap(t) ==
    /\ pc[t] = "get_model"
    /\ handles' = Append(handles,
                    AzureChatOpenAI(Len(handles) + 1,
                                    "gpt-35-turbo-0125", "0125", 0))
    /\ globals' = [globals EXCEPT !["MAX_CONCURRENCY"] = @ + 1]
    /\ pc' = [pc EXCEPT ![t] = "idle"]
    /\ UNCHANGED <<loaded, debug, verbose, before_load, environ, urls>>

\* Body of get_model(): construct a new client and return it.
get_model(t) ==
    /\ pc[t] = "get_model"
    /\ handles' = Append(handles,
                    AzureChatOpenAI(Len(handles) + 1,
                                    "gpt-35-turbo-0125", "0125", 0))
    /\ pc' = [pc EXCEPT ![t] = "idle"]
    /\ UNCHANGED <<loaded, globals, debug, verbose, before_load, environ, urls>>

Next ==
    \/ Load
    \/ \E n \in EnvNames : \E v \in EnvValues[n] : SetEnv(n, v)
    \/ \E n \in EnvNames : DelEnv(n)
    \/ \E t \in Threads : call_get_postgres_url(t)
    \/ \E t \in Threads : get_postgres_url(t)
    \/ \E t \in Threads : call_get_model(t)
    \/ \E t \in Threads : get_model(t)

Spec == Init /\ [][Next]_vars

----------------------------------------------------------------------------
\* Helpers of the properties below.

HostSet(e) == "PG_HOST" \in DOMAIN e

\* A descriptor or a handle without the field f.
Without(r, f) == [k \in DOMAIN r \ {f} |-> r[k]]

IsCallStep(name) ==
    \E t \in Threads : pc[t] # pc'[t] /\ name \in {pc[t], pc'[t]}

----------------------------------------------------------------------------
\* C1: a get_postgres_url() call made while PG_HOST is unset returns the
\* descriptor postgresql / langchain / langchain / localhost / langchain /
\* 5432.
C1_DefaultDescriptor ==
    \A i \in 1..Len(urls) :
        ~HostSet(urls[i].environ) =>
            urls[i].value = [drivername |-> "postgresql",
                             username |-> "langchain",
                             password |-> "langchain",
                             host |-> "localhost",
                             database |-> "langchain",
                             port |-> 5432]

\* A call has returned with PG_HOST unset, once with PG_USER set too.
C1_Witness ==
    /\ \E i \in 1..Len(urls) : DOMAIN urls[i].environ = {}
    /\ \E i \in 1..Len(urls) : DOMAIN urls[i].environ = {"PG_USER"}

\* C2: a call made while PG_HOST is set to v, the empty string included,
\* returns a descriptor whose host is v and whose other fields are those of
\* any descriptor returned with PG_HOST unset.
C2_HostOverride ==
    \A i \in 1..Len(urls) :
        HostSet(urls[i].environ) =>
            /\ urls[i].value.host = urls[i].environ["PG_HOST"]
            /\ \A j \in 1..Len(urls) :
                   ~HostSet(urls[j].environ) =>
                       Without(urls[i].value, "host")
                           = Without(urls[j].value, "host")

\* Calls have returned with PG_HOST empty, with PG_HOST a host name, and
\* with PG_HOST unset.
C2_Witness ==
    /\ \E i \in 1..Len(urls) :
           HostSet(urls[i].environ) /\ urls[i].value.host = ""
    /\ \E i \in 1..Len(urls) :
           HostSet(urls[i].environ) /\ urls[i].value.host = "db.example.com"
    /\ \E i \in 1..Len(urls) : ~HostSet(urls[i].environ)

\* C3: every handle get_model() returns has temperature 0, deployment name
\* gpt-35-turbo-0125 and model version 0125; the handles of two calls are
\* two objects with the same parameters.
C3_ModelHandles ==
    /\ \A i \in 1..Len(handles) :
           /\ handles[i].temperature = 0
           /\ handles[i].deployment_name = "gpt-35-turbo-0125"
           /\ handles[i].model_version = "0125"
    /\ \A i, j \in 1..Len(handles) :
           i # j => /\ handles[i].id # handles[j].id
                    /\ Without(handles[i], "id") = Without(handles[j], "id")

\* get_model() has returned MaxCalls times.
C3_Witness == Len(handles) = MaxCalls /\ MaxCalls >= 2

\* C4: once the module is loaded the constants are gpt-3.5-turbo, 250, 0
\* and 1, whatever calls and environment changes have happened.
C4_ConstantsFixed ==
    loaded =>
        /\ MODEL_NAME = "gpt-3.5-turbo"
        /\ CHUNK_SIZE = 250
        /\ CHUNK_OVERLAP = 0
        /\ MAX_CONCURRENCY = 1

\* Both factories have returned and the environment differs from the one
\* a call saw.
C4_Witness ==
    /\ loaded
    /\ Len(handles) > 0
    /\ \E i \in 1..Len(urls) : urls[i].environ # environ

\* C5: any two returned descriptors agree on every field but the host,
\* and are equal when the two environments agree on PG_HOST (both unset or
\* both set to one value), whatever else the environments hold.
C5_OnlyHostOverridable ==
    \A i, j \in 1..Len(urls) :
        /\ Without(urls[i].value, "host") = Without(urls[j].value, "host")
        /\ (\/ ~HostSet(urls[i].environ) /\ ~HostSet(urls[j].environ)
            \/ /\ HostSet(urls[i].environ) /\ HostSet(urls[j].environ)
               /\ urls[i].environ["PG_HOST"] = urls[j].environ["PG_HOST"])
           => urls[i].value = urls[j].value

\* Two calls saw environments that agree on PG_HOST and differ on PG_USER,
\* and a third saw another PG_HOST.
C5_Witness ==
    \E i, j, k \in 1..Len(urls) :
        /\ HostSet(urls[i].environ) /\ HostSet(urls[j].environ)
        /\ urls[i].environ["PG_HOST"] = urls[j].environ["PG_HOST"]
        /\ urls[i].environ # urls[j].environ
        /\ urls[k].value.host # urls[i].value.host

\* C6: a get_postgres_url() call always completes, and completes by
\* returning a descriptor, whether PG_HOST is unset, empty, a host name or
\* no host name at all.
C6_NoErrorOutcome ==
    /\ \A i \in 1..Len(urls) : urls[i].outcome = "return"
    /\ \A t \in Threads :
           pc[t] = "get_postgres_url" => ENABLED get_postgres_url(t)

\* Calls have returned with PG_HOST empty and with PG_HOST no host name,
\* the value handed through as it is.
C6_Witness ==
    /\ \E i \in 1..Len(urls) :
           /\ HostSet(urls[i].environ)
           /\ urls[i].environ["PG_HOST"] = "bad host/@"
           /\ urls[i].value.host = "bad host/@"
    /\ \E i \in 1..Len(urls) :
           HostSet(urls[i].environ) /\ urls[i].environ["PG_HOST"] = ""

\* C7: the step that loads the module leaves debug and verbose true,
\* whatever they and the environment were, and writes nothing else outside
\* the module; no step of get_postgres_url() or get_model() changes them.
C7_TogglesSetAtLoad ==
    [][/\ (~loaded /\ loaded') =>
              debug' /\ verbose' /\ environ' = environ
       /\ (IsCallStep("get_postgres_url") \/ IsCallStep("get_model")) =>
              debug' = debug /\ verbose' = verbose]_vars

\* The module was loaded with both toggles false, both are true, and both
\* factories have returned since.
C7_Witness ==
    /\ loaded
    /\ before_load = <<FALSE, FALSE>>
    /\ debug /\ verbose
    /\ Len(urls) > 0
    /\ Len(handles) > 0

\* C8: no step of a get_postgres_url() call changes the environment, the
\* module constants, the logging toggles or the handles given out.
C8_GetPostgresUrlFrame ==
    [][IsCallStep("get_postgres_url") =>
           UNCHANGED <<environ, loaded, globals, debug, verbose, handles>>]_vars

\* Calls have returned with PG_HOST unset and with PG_HOST set, and the
\* environment is still the one the last call saw.
C8_Witness ==
    /\ \E i \in 1..Len(urls) : ~HostSet(urls[i].environ)
    /\ \E i \in 1..Len(urls) : HostSet(urls[i].environ)
    /\ Len(urls) > 0
    /\ urls[Len(urls)].environ = environ

\* C9: the descriptor a call returns has the host PG_HOST has in the
\* environment of the very step that builds it, localhost if it is unset
\* then, whatever earlier calls returned.
C9_HostResolvedAtCall ==
    [][Len(urls') = Len(urls) + 1 =>
           urls'[Len(urls')].value.host
               = IF "PG_HOST" \in DOMAIN environ
                   THEN environ["PG_HOST"]
                   ELSE "localhost"]_vars

\* Three calls returned three hosts: the default, then an override, then
\* another override.
C9_Witness ==
    /\ Len(urls) >= 3
    /\ urls[1].value.host = "localhost"
    /\ urls[2].value.host = "db.example.com"
    /\ urls[3].value.host = ""

\* C10: MAX_CONCURRENCY is 1 and limits nothing: an idle thread can enter
\* either factory however many calls are inside them, and a thread inside
\* one can always finish.
C10_NoConcurrencyLimit ==
    /\ loaded => MAX_CONCURRENCY = 1
    /\ \A t \in Threads :
           (loaded /\ pc[t] = "idle" /\ Started < MaxCalls) =>
               ENABLED call_get_model(t) /\ ENABLED call_get_postgres_url(t)
    /\ \A t \in Threads :
           /\ pc[t] = "get_model" => ENABLED get_model(t)
           /\ pc[t] = "get_postgres_url" => ENABLED get_postgres_url(t)

\* More threads are inside get_model() than MAX_CONCURRENCY.
C10_Witness ==
    /\ loaded
    /\ Cardinality({t \in Threads : pc[t] = "get_model"}) > MAX_CONCURRENCY

====
